---- MODULE Spec2Model ----
(***************************************************************************)
(* Local entry model of spotify_player: LocalEntry / LocalEntries          *)
(* (local/mod.rs) and the directory scan and sink helpers                  *)
(* (local/utils.rs).                                                       *)
(*                                                                         *)
(* Strings are sequences of one-character strings and are compared the    *)
(* way Rust compares String values: lexicographically by byte value.      *)
(* Option<T> is a sequence of length at most one: None is << >> and       *)
(* Some(v) is <<v>>.                                                       *)
(***************************************************************************)
EXTENDS Integers, Sequences, FiniteSets, TLC

VARIABLES
    fs,               \* the directory get_local_entries is called on, where
                      \* the call is part of the behaviour (NoFs elsewhere)
    entries,          \* LocalEntries.entries
    op,               \* the last operation called, with its arguments
    ret,              \* the value the last call returned (NoRet for a call
                      \* that returns nothing)
    status            \* "running", or "panicked" once a call has panicked

vars == <<fs, entries, op, ret, status>>

-----------------------------------------------------------------------------
(* Sizes *)

\* largest number of items read_dir yields for a scanned directory
MaxChildren == 3

\* usize::MAX.  usize is 16, 32 or 64 bits wide depending on the target and
\* its arithmetic is the same modulo 2^width; the narrowest width is taken
UsizeMax == 65535

-----------------------------------------------------------------------------
(* Option<T> *)

None == << >>

Some(v) == <<v>>

IsSome(o) == Len(o) = 1

UnwrapOr(o, d) == IF Len(o) = 1 THEN o[1] ELSE d

-----------------------------------------------------------------------------
(* Strings *)

\* byte values of the characters the model's names are made of
Ascii ==
    "!" :> 33 @@ "." :> 46 @@ "/" :> 47 @@ "3" :> 51 @@
    "A" :> 65 @@ "M" :> 77 @@ "P" :> 80 @@ "T" :> 84 @@
    "a" :> 97 @@ "b" :> 98 @@ "c" :> 99 @@ "f" :> 102 @@ "k" :> 107 @@
    "l" :> 108 @@ "m" :> 109 @@ "p" :> 112 @@ "r" :> 114 @@ "s" :> 115 @@
    "t" :> 116 @@ "u" :> 117 @@ "x" :> 120 @@ "z" :> 122

\* u8::to_ascii_lowercase
ToAsciiLowercase(b) == IF b >= 65 /\ b <= 90 THEN b + 32 ELSE b

\* str::cmp: "Less", "Equal" or "Greater", lexicographic by byte
RECURSIVE StrCmp(_, _)
StrCmp(a, b) ==
    IF a = << >> /\ b = << >> THEN "Equal"
    ELSE IF a = << >> THEN "Less"
    ELSE IF b = << >> THEN "Greater"
    ELSE IF Ascii[Head(a)] < Ascii[Head(b)] THEN "Less"
    ELSE IF Ascii[Head(a)] > Ascii[Head(b)] THEN "Greater"
    ELSE StrCmp(Tail(a), Tail(b))

\* str::eq_ignore_ascii_case
EqIgnoreAsciiCase(a, b) ==
    /\ Len(a) = Len(b)
    /\ \A i \in 1..Len(a) :
           ToAsciiLowercase(Ascii[a[i]]) = ToAsciiLowercase(Ascii[b[i]])

\* the positions of character c in s
Positions(s, c) == {i \in 1..Len(s) : s[i] = c}

SetMax(S) == CHOOSE x \in S : \A y \in S : y <= x

-----------------------------------------------------------------------------
(* std::path::Path *)

\* the text after the last separator (the last component as written)
LastSegment(p) ==
    IF Positions(p, "/") = {} THEN p
    ELSE SubSeq(p, SetMax(Positions(p, "/")) + 1, Len(p))

\* the path without its last separator and what follows it
DropLastSegment(p) ==
    IF Positions(p, "/") = {} THEN << >>
    ELSE SubSeq(p, 1, SetMax(Positions(p, "/")) - 1)

\* Path::file_name: the last normal component; trailing separators and "."
\* components are skipped, and a path ending in ".." (or with no component)
\* has none
RECURSIVE PathFileName(_)
PathFileName(p) ==
    IF p = << >> THEN None
    ELSE IF LastSegment(p) = << >> \/ LastSegment(p) = <<".">>
         THEN IF Positions(p, "/") = {} THEN None
              ELSE PathFileName(DropLastSegment(p))
    ELSE IF LastSegment(p) = <<".", ".">> THEN None
    ELSE Some(LastSegment(p))

\* Path::extension: the part of file_name after its last ".", unless there is
\* no "." or the only "." is the first character
PathExtension(p) ==
    IF ~IsSome(PathFileName(p)) THEN None
    ELSE LET f == PathFileName(p)[1]
             dots == Positions(f, ".")
         IN  IF dots = {} THEN None
             ELSE IF SetMax(dots) = 1 THEN None
             ELSE Some(SubSeq(f, SetMax(dots) + 1, Len(f)))

\* Path::join for a relative child name
PathJoin(base, name) == base \o <<"/">> \o name

-----------------------------------------------------------------------------
(* LocalEntry (local/mod.rs) *)

Directory(full_path) == [kind |-> "Directory", full_path |-> full_path]

Playable(full_path, selected, title, artists, duration, album, genre) ==
    [kind |-> "Playable", full_path |-> full_path, selected |-> selected,
     title |-> title, artists |-> artists, duration |-> duration,
     album |-> album, genre |-> genre]

IsDirectory(e) == e.kind = "Directory"

IsPlayable(e) == e.kind = "Playable"

\* LocalEntry::file_name
file_name(e) == UnwrapOr(PathFileName(e.full_path), e.full_path)

\* LocalEntry::name
name(e) ==
    IF IsDirectory(e) THEN file_name(e)
    ELSE IF IsSome(e.title) THEN e.title[1]
    ELSE file_name(e)

\* LocalEntry::album
album(e) ==
    IF IsDirectory(e) THEN <<"u", "n", "k", "n", "o", "w", "n">>
    ELSE UnwrapOr(e.album, <<"u", "n", "k", "n", "o", "w", "n">>)

\* LocalEntry::artists
artists(e) ==
    IF IsDirectory(e) THEN << >> ELSE UnwrapOr(e.artists, << >>)

\* LocalEntry::duration
duration(e) ==
    IF IsDirectory(e) THEN 0 ELSE UnwrapOr(e.duration, 0)

\* LocalEntry::set_duration
set_duration(e, new_duration) ==
    IF IsPlayable(e) THEN [e EXCEPT !.duration = new_duration] ELSE e

\* LocalEntry::selected
selected(e) == IF IsDirectory(e) THEN FALSE ELSE e.selected

\* set_selected writing a second field of the Playable as well
set_selected_clobber(e, value) ==
    IF IsDirectory(e) THEN e
    ELSE [e EXCEPT !.selected = value, !.duration = None]

\* LocalEntry::set_selected
set_selected(e, value) ==
    IF IsDirectory(e) THEN e ELSE [e EXCEPT !.selected = value]

\* LocalEntry::try_to_playable_item: the fields of the FullTrack that come
\* from the entry (every other field is a fixed default).  Durations are
\* whole seconds far below TimeDelta::MAX, where TimeDelta::from_std keeps
\* the value
try_to_playable_item(e) ==
    IF IsDirectory(e) THEN None
    ELSE Some([name |-> name(e), album |-> album(e), artists |-> artists(e),
               duration |-> duration(e), is_local |-> TRUE])

\* the ordering taken over the display name (the tag title) instead of the
\* file name
cmp_by_name(a, b) ==
    IF IsDirectory(a)
    THEN IF IsDirectory(b) THEN StrCmp(name(a), name(b)) ELSE "Less"
    ELSE IF IsDirectory(b) THEN "Greater"
         ELSE StrCmp(name(a), name(b))

\* impl Ord for LocalEntry
cmp(a, b) ==
    IF IsDirectory(a)
    THEN IF IsDirectory(b) THEN StrCmp(file_name(a), file_name(b)) ELSE "Less"
    ELSE IF IsDirectory(b) THEN "Greater"
         ELSE StrCmp(file_name(a), file_name(b))

\* impl PartialEq for LocalEntry
eq(a, b) ==
    IF IsDirectory(a)
    THEN IF IsDirectory(b) THEN file_name(a) = file_name(b) ELSE FALSE
    ELSE IF IsDirectory(b) THEN FALSE
         ELSE file_name(a) = file_name(b)

\* one step of a stable sort: e goes after every element that is not
\* greater than it
RECURSIVE InsertSorted(_, _)
InsertSorted(s, e) ==
    IF s = << >> THEN <<e>>
    ELSE IF cmp(e, Head(s)) = "Less" THEN <<e>> \o s
    ELSE <<Head(s)>> \o InsertSorted(Tail(s), e)

\* Vec::sort, a stable sort by cmp
RECURSIVE Sort(_)
Sort(s) ==
    IF s = << >> THEN << >>
    ELSE InsertSorted(Sort(SubSeq(s, 1, Len(s) - 1)), s[Len(s)])

-----------------------------------------------------------------------------
(* The file system and the tag reader, as get_local_entries sees them *)

\* what Tag::new().read_from_path gives for a file.  duration is the f64 of
\* tag.duration(): a whole number of seconds, or -1 for any value that
\* Duration::from_secs_f64 rejects (negative, NaN, infinite, too large)
TagErr ==
    [ok |-> FALSE, title |-> None, artists |-> None, duration |-> None,
     album |-> None, genre |-> None]

TagEmpty == [TagErr EXCEPT !.ok = TRUE]

TagFull ==
    [ok |-> TRUE, title |-> Some(<<"T">>), artists |-> Some(<<<<"A">>>>),
     duration |-> Some(3), album |-> Some(<<"A", "l">>),
     genre |-> Some(<<"r", "k">>)]

TagZeroDuration == [TagEmpty EXCEPT !.title = Some(<<"T">>), !.duration = Some(0)]

TagBadDuration == [TagFull EXCEPT !.duration = Some(-1)]

TagResults == {TagErr, TagEmpty, TagFull, TagZeroDuration, TagBadDuration}

\* one item of the read_dir iterator: an Err, or a child with its name, what
\* is_dir / is_file say about it, and what the tag reader gives for it
DirentErr == [ok |-> FALSE, name |-> << >>, kind |-> "other", tag |-> TagErr]

Dirent(child_name, kind, tag) ==
    [ok |-> TRUE, name |-> child_name, kind |-> kind, tag |-> tag]

ChildDirs ==
    { Dirent(n, "dir", TagErr) : n \in {<<"z">>, <<"!", "x">>} }

OtherFileNames ==
    { <<"t", "r", "a", "c", "k", ".", "t", "x", "t">>, <<".", "m", "p", "3">> }

\* regular files: a.flac with every tag result, b.mp3 with unreadable or
\* complete tags, c.MP3 with unreadable tags, and files that are not audio
ChildFiles ==
    { Dirent(<<"a", ".", "f", "l", "a", "c">>, "file", t) : t \in TagResults }
        \cup { Dirent(<<"b", ".", "m", "p", "3">>, "file", t) :
                t \in {TagErr, TagFull} }
        \cup { Dirent(<<"c", ".", "M", "P", "3">>, "file", TagErr) }
        \cup { Dirent(n, "file", TagErr) : n \in OtherFileNames }

\* neither a directory nor a regular file (a socket, a dangling link)
ChildOthers == { Dirent(<<"s", ".", "m", "p", "3">>, "other", TagErr) }

Dirents == ChildDirs \cup ChildFiles \cup ChildOthers \cup {DirentErr}

\* the children of one directory have different names
DistinctNames(listing) ==
    \A i, j \in 1..Len(listing) :
        (i # j /\ listing[i].ok /\ listing[j].ok)
            => listing[i].name # listing[j].name

RECURSIVE SeqsUpTo(_, _)
SeqsUpTo(S, n) ==
    IF n = 0 THEN {<< >>}
    ELSE LET shorter == SeqsUpTo(S, n - 1)
         IN  shorter \cup { Append(s, x) : s \in shorter, x \in S }

Listings == { l \in SeqsUpTo(Dirents, MaxChildren) : DistinctNames(l) }

\* the path scanned
ScanPath == <<"m">>

\* the argument of get_local_entries as the file system presents it: whether
\* the path is a directory, whether read_dir succeeds, and what it iterates
ScanInputs ==
    { [is_dir |-> FALSE, read_dir_ok |-> FALSE, listing |-> << >>],
      [is_dir |-> TRUE, read_dir_ok |-> FALSE, listing |-> << >>] }
        \cup { [is_dir |-> TRUE, read_dir_ok |-> TRUE, listing |-> l] :
               l \in Listings }

-----------------------------------------------------------------------------
(* local/utils.rs *)

\* is_playable comparing the extension with eq instead of
\* eq_ignore_ascii_case
is_playable_case_sensitive(filename) ==
    LET ext == PathExtension(filename)
    IN  /\ IsSome(ext)
        /\ \/ ext[1] = <<"m", "p", "3">>
           \/ ext[1] = <<"f", "l", "a", "c">>

\* is_playable
is_playable(filename) ==
    LET ext == PathExtension(filename)
    IN  /\ IsSome(ext)
        /\ \/ EqIgnoreAsciiCase(ext[1], <<"m", "p", "3">>)
           \/ EqIgnoreAsciiCase(ext[1], <<"f", "l", "a", "c">>)

\* Duration::from_secs_f64 panics on a value it cannot represent
FromSecsF64Panics(secs) == secs < 0

\* the Playable built for one accepted file (utils.rs lines 30-71)
TaggedPlayable(d) ==
    Playable(PathJoin(ScanPath, d.name), FALSE,
             IF d.tag.ok THEN d.tag.title ELSE None,
             IF d.tag.ok THEN d.tag.artists ELSE None,
             IF d.tag.ok THEN d.tag.duration ELSE None,
             IF d.tag.ok THEN d.tag.album ELSE None,
             IF d.tag.ok THEN d.tag.genre ELSE None)

\* whether the loop body panics on this item
DirentPanics(d) ==
    /\ d.ok /\ d.kind = "file" /\ is_playable(d.name)
    /\ d.tag.ok /\ IsSome(d.tag.duration)
    /\ FromSecsF64Panics(d.tag.duration[1])

\* the entries the loop body pushes for one item of dir.flatten()
DirentEntries(d) ==
    IF ~d.ok THEN << >>
    ELSE IF d.kind = "dir" THEN <<Directory(PathJoin(ScanPath, d.name))>>
    ELSE IF d.kind = "file" /\ is_playable(d.name) THEN <<TaggedPlayable(d)>>
    ELSE << >>

\* the loop over the directory's items, from item i on
RECURSIVE ScanLoop(_, _, _)
ScanLoop(listing, i, acc) ==
    IF i > Len(listing) THEN [panicked |-> FALSE, entries |-> acc]
    ELSE IF DirentPanics(listing[i]) THEN [panicked |-> TRUE, entries |-> << >>]
    ELSE ScanLoop(listing, i + 1, acc \o DirentEntries(listing[i]))

\* get_local_entries
get_local_entries(path) ==
    IF ~path.is_dir THEN [panicked |-> FALSE, entries |-> << >>]
    ELSE LET first == <<Directory(<<".", ".">>)>>
             scanned == IF path.read_dir_ok
                        THEN ScanLoop(path.listing, 1, first)
                        ELSE [panicked |-> FALSE, entries |-> first]
         IN  IF scanned.panicked THEN scanned
             ELSE [panicked |-> FALSE, entries |-> Sort(scanned.entries)]

-----------------------------------------------------------------------------
(* LocalEntries (local/mod.rs) *)

\* select setting the target without clearing the other entries
select_keep(es, index) ==
    [i \in 1..Len(es) |->
        IF (i - 1) = index THEN set_selected(es[i], TRUE) ELSE es[i]]

\* LocalEntries::select
select(es, index) ==
    [i \in 1..Len(es) |-> set_selected(es[i], (i - 1) = index)]

\* unselect_all clearing the flags of a copy of the entries
unselect_all_copy(es) == es

\* LocalEntries::unselect_all
unselect_all(es) ==
    [i \in 1..Len(es) |-> set_selected(es[i], FALSE)]

\* current_index + 1 in usize arithmetic, when overflow is not checked
WrappingSucc(n) == (n + 1) % (UsizeMax + 1)

\* the range expression current_index + 1 panics when the build checks overflow
SuccPanics(n, checked) == checked /\ n + 1 > UsizeMax

\* the loop of to_user_queue: for i in start..len (i is 0-based)
RECURSIVE QueueLoop(_, _, _)
QueueLoop(es, i, queue) ==
    IF i >= Len(es) THEN queue
    ELSE LET item == try_to_playable_item(es[i + 1])
         IN  QueueLoop(es, i + 1, IF IsSome(item) THEN Append(queue, item[1])
                                  ELSE queue)

\* LocalEntries::to_user_queue, for a call that returns
to_user_queue(es, current_index) ==
    [currently_playing |->
         IF current_index < Len(es)
         THEN try_to_playable_item(es[current_index + 1])
         ELSE None,
     queue |-> QueueLoop(es, WrappingSucc(current_index), << >>)]

-----------------------------------------------------------------------------
(* State machine of one LocalEntries value *)

\* no directory recorded
NoFs == [is_dir |-> FALSE, read_dir_ok |-> FALSE, listing |-> << >>]

\* nothing returned; also the CurrentUserQueue with nothing playing and an
\* empty queue
NoRet == [currently_playing |-> None, queue |-> << >>]

Call(op_name, index, arg) == [name |-> op_name, index |-> index, arg |-> arg]

\* the indices callers pass: every position, one past the end, and usize::MAX
Indices == 0..(MaxChildren + 1) \cup {UsizeMax}

\* Option<Duration> values passed to set_duration and reported by the decoder
DurationArgs == {None, Some(5)}

\* what File::open and rodio::Decoder::try_from give add_entry_to_sink: the
\* file does not open, it opens and does not decode, or it decodes and the
\* source reports its total_duration
SinkOutcomes ==
    { [open_ok |-> FALSE, decode_ok |-> FALSE, total_duration |-> None],
      [open_ok |-> TRUE, decode_ok |-> FALSE, total_duration |-> None] }
        \cup { [open_ok |-> TRUE, decode_ok |-> TRUE, total_duration |-> t] :
                t \in DurationArgs }

\* the collection is the one a directory scan returned
Init ==
    \E path \in ScanInputs :
        LET r == get_local_entries(path)
        IN  /\ fs = NoFs
            /\ entries = r.entries
            /\ op = Call("get_local_entries", 0, None)
            /\ ret = NoRet
            /\ status = IF r.panicked THEN "panicked" ELSE "running"

Select(index) ==
    /\ status = "running"
    /\ entries' = select(entries, index)
    /\ op' = Call("select", index, None)
    /\ ret' = NoRet
    /\ UNCHANGED <<fs, status>>

UnselectAll ==
    /\ status = "running"
    /\ entries' = unselect_all(entries)
    /\ op' = Call("unselect_all", 0, None)
    /\ ret' = NoRet
    /\ UNCHANGED <<fs, status>>

\* entries_mut()[index].set_duration(new_duration), for an index in bounds
SetDuration(index, new_duration) ==
    /\ status = "running"
    /\ index < Len(entries)
    /\ entries' = [entries EXCEPT
                       ![index + 1] = set_duration(@, new_duration)]
    /\ op' = Call("set_duration", index, new_duration)
    /\ ret' = NoRet
    /\ UNCHANGED <<fs, status>>

\* entries_mut()[index].set_selected(value), for an index in bounds
SetSelected(index, value) ==
    /\ status = "running"
    /\ index < Len(entries)
    /\ entries' = [entries EXCEPT ![index + 1] = set_selected(@, value)]
    /\ op' = Call("set_selected", index, value)
    /\ ret' = NoRet
    /\ UNCHANGED <<fs, status>>

\* add_entry_to_sink without the is_zero test
add_entry_to_sink_overwrite(e, outcome) ==
    IF IsPlayable(e) /\ outcome.open_ok /\ outcome.decode_ok
    THEN set_duration(e, outcome.total_duration)
    ELSE e

\* the entry after add_entry_to_sink with the given outcome of open / decode
add_entry_to_sink(e, outcome) ==
    IF IsPlayable(e) /\ outcome.open_ok /\ outcome.decode_ok
       /\ duration(e) = 0
    THEN set_duration(e, outcome.total_duration)
    ELSE e

\* whether add_entry_to_sink appends a source to the sink
SinkAppends(e, outcome) ==
    IsPlayable(e) /\ outcome.open_ok /\ outcome.decode_ok

\* add_entry_to_sink(&mut entries_mut()[index], sink), for an index in
\* bounds; what the sink receives is recorded with the call
AddEntryToSink(index, outcome) ==
    /\ status = "running"
    /\ index < Len(entries)
    /\ entries' = [entries EXCEPT
                       ![index + 1] = add_entry_to_sink(@, outcome)]
    /\ op' = Call("add_entry_to_sink", index,
                  [outcome |-> outcome,
                   appended |-> SinkAppends(entries[index + 1], outcome)])
    /\ ret' = NoRet
    /\ UNCHANGED <<fs, status>>

\* checked: whether the build compiles integer overflow checks in (debug
\* profile) or leaves usize arithmetic wrapping (release profile)
ToUserQueue(current_index, checked) ==
    /\ status = "running"
    /\ op' = Call("to_user_queue", current_index, None)
    /\ IF SuccPanics(current_index, checked)
       THEN /\ status' = "panicked"
            /\ ret' = NoRet
       ELSE /\ status' = status
            /\ ret' = to_user_queue(entries, current_index)
    /\ UNCHANGED <<fs, entries>>

Next ==
    \/ \E index \in Indices : Select(index)
    \/ UnselectAll
    \/ \E index \in Indices, d \in DurationArgs : SetDuration(index, d)
    \/ \E index \in Indices, o \in SinkOutcomes : AddEntryToSink(index, o)
    \/ \E index \in Indices, checked \in BOOLEAN : ToUserQueue(index, checked)

Spec == Init /\ [][Next]_vars

\* the mutators of the flags alone, with callers that also set single
\* selected flags through entries_mut()
NextMut ==
    \/ \E index \in Indices : Select(index)
    \/ UnselectAll
    \/ \E index \in Indices, d \in DurationArgs : SetDuration(index, d)
    \/ \E index \in Indices, value \in BOOLEAN : SetSelected(index, value)

SpecMut == Init /\ [][NextMut]_vars

-----------------------------------------------------------------------------
(* One directory scan, with its argument recorded *)

InitScan ==
    /\ fs \in ScanInputs
    /\ entries = << >>
    /\ op = Call("new", 0, None)
    /\ ret = NoRet
    /\ status = "running"

\* entries = get_local_entries(fs)
GetLocalEntries ==
    /\ op.name = "new"
    /\ LET r == get_local_entries(fs)
       IN  /\ entries' = r.entries
           /\ status' = IF r.panicked THEN "panicked" ELSE "running"
    /\ op' = Call("get_local_entries", 0, None)
    /\ UNCHANGED <<fs, ret>>

NextScan == GetLocalEntries

SpecScan == InitScan /\ [][NextScan]_vars

-----------------------------------------------------------------------------
(* Comparisons of three entries *)

\* entries as LocalEntries::new accepts them, in any order: directories and
\* files, files of the same name in two directories, with and without a title
OrdEntries ==
    { Directory(<<".", ".">>),
      Directory(PathJoin(ScanPath, <<"z">>)),
      Directory(PathJoin(ScanPath, <<"!", "x">>)),
      Directory(PathJoin(ScanPath, <<"b", ".", "m", "p", "3">>)),
      Playable(PathJoin(ScanPath, <<"b", ".", "m", "p", "3">>), FALSE,
               None, None, None, None, None),
      Playable(PathJoin(<<"z">>, <<"b", ".", "m", "p", "3">>), TRUE,
               Some(<<"T">>), None, Some(3), None, None),
      Playable(PathJoin(ScanPath, <<"a", ".", "f", "l", "a", "c">>), FALSE,
               Some(<<"z">>), None, None, None, None),
      Playable(PathJoin(ScanPath, <<"a">>), FALSE,
               Some(<<"c">>), None, None, None, None) }

InitOrd ==
    /\ fs = NoFs
    /\ entries \in [1..3 -> OrdEntries]
    /\ op = Call("new", 0, None)
    /\ ret = NoRet
    /\ status = "running"

\* every comparison of two of the three entries
Compare ==
    /\ op.name = "new"
    /\ ret' = [cmp |-> [i \in 1..3 |-> [j \in 1..3 |->
                            cmp(entries[i], entries[j])]],
               eq |-> [i \in 1..3 |-> [j \in 1..3 |->
                            eq(entries[i], entries[j])]]]
    /\ op' = Call("cmp", 0, None)
    /\ UNCHANGED <<fs, entries, status>>

NextOrd == Compare

SpecOrd == InitOrd /\ [][NextOrd]_vars

-----------------------------------------------------------------------------
(* Properties *)

\* the positions (1-based) of the entries whose selected() is true
SelectedSet == {i \in 1..Len(entries) : selected(entries[i])}

\* x sorts strictly before y, byte by byte
LexLess(x, y) ==
    \E k \in 1..Len(y) :
        /\ k - 1 <= Len(x)
        /\ \A j \in 1..(k - 1) : x[j] = y[j]
        /\ (k > Len(x) \/ Ascii[x[k]] < Ascii[y[k]])

\* the file-name component of an entry's path: what follows the last
\* separator (the whole of "..")
FileNameComponent(e) == LastSegment(e.full_path)

\* C1 as stated: after select(i) with i < length exactly the entry at i is
\* selected, whatever its variant; with i >= length no entry is selected.
C1_SelectExactlyTarget ==
    op.name = "select" =>
        SelectedSet = (IF op.index < Len(entries) THEN {op.index + 1} ELSE {})

\* C1 amended: after select(i), exactly the entry at i is selected when
\* i < length and that entry is a Playable; no entry is selected when the
\* entry at i is a Directory or i >= length.
C1_SelectPlayableTarget ==
    op.name = "select" =>
        SelectedSet =
            (IF op.index < Len(entries) /\ IsPlayable(entries[op.index + 1])
             THEN {op.index + 1} ELSE {})

\* select(i) has selected the Playable at i in a collection that also holds
\* directories
C1_Witness ==
    /\ op.name = "select"
    /\ op.index < Len(entries)
    /\ op.index > 0
    /\ SelectedSet = {op.index + 1}

\* C2: after get_local_entries on a directory, the entry at position 0 is
\* the Directory "..".
C2_ParentFirst ==
    (op.name = "get_local_entries" /\ status = "running" /\ fs.is_dir) =>
        (Len(entries) >= 1 /\ entries[1] = Directory(<<".", ".">>))

\* the items of the Playable entries of a sequence, in order
RECURSIVE ItemsOf(_)
ItemsOf(es) ==
    IF es = << >> THEN << >>
    ELSE IF IsPlayable(Head(es))
         THEN <<try_to_playable_item(Head(es))[1]>> \o ItemsOf(Tail(es))
    ELSE ItemsOf(Tail(es))

\* what C3 says to_user_queue(current_index) returns
ExpectedQueue(current_index) ==
    [currently_playing |->
         IF current_index < Len(entries)
            /\ IsPlayable(entries[current_index + 1])
         THEN try_to_playable_item(entries[current_index + 1])
         ELSE None,
     queue |-> ItemsOf(SubSeq(entries, current_index + 2, Len(entries)))]

\* C3: to_user_queue(current_index) returns the item of the entry at
\* current_index (when in bounds and Playable) and, as queue, the items of
\* exactly the Playable entries after current_index, in order, for every
\* current_index.
C3_QueueContents ==
    (op.name = "to_user_queue" /\ status = "running") =>
        ret = ExpectedQueue(op.index)

\* the same for every current_index below usize::MAX
QueueContentsBelowMax ==
    (op.name = "to_user_queue" /\ op.index < UsizeMax) =>
        (status = "running" /\ ret = ExpectedQueue(op.index))

\* C10: to_user_queue completes for every current_index, usize::MAX
\* included, and returns nothing playing and an empty queue whenever
\* current_index >= length.
C10_TotalOverIndices ==
    op.name = "to_user_queue" =>
        /\ status = "running"
        /\ op.index >= Len(entries) => ret = NoRet

\* C5: in every state reached from a scanned collection by select,
\* unselect_all, set_duration, add_entry_to_sink and to_user_queue at most
\* one entry is selected, and right after unselect_all none is.
C5_AtMostOneSelected ==
    /\ Cardinality(SelectedSet) <= 1
    /\ op.name = "unselect_all" => SelectedSet = {}

\* an entry is still the selected one after it was added to the sink
C5_Witness ==
    /\ op.name = "add_entry_to_sink"
    /\ op.arg.appended
    /\ SelectedSet = {op.index + 1}

\* the ordering C4 gives two entries: directories first, then by file-name
\* component
ExpectedOrdering(a, b) ==
    IF IsDirectory(a) /\ IsPlayable(b) THEN "Less"
    ELSE IF IsPlayable(a) /\ IsDirectory(b) THEN "Greater"
    ELSE IF LexLess(FileNameComponent(a), FileNameComponent(b)) THEN "Less"
    ELSE IF FileNameComponent(a) = FileNameComponent(b) THEN "Equal"
    ELSE "Greater"

\* C4: cmp is a strict total order consistent with eq: a Directory is less
\* than a Playable, entries of one variant compare as their file-name
\* components do (the title plays no part), cmp is antisymmetric and
\* transitive, and a == b iff cmp(a, b) is Equal iff the two have the same
\* variant and the same file-name component.
C4_TotalOrder ==
    op.name = "cmp" =>
        /\ \A i, j \in 1..3 :
            /\ ret.cmp[i][j] = ExpectedOrdering(entries[i], entries[j])
            /\ (ret.cmp[i][j] = "Less") <=> (ret.cmp[j][i] = "Greater")
            /\ ret.eq[i][j] <=> (ret.cmp[i][j] = "Equal")
            /\ ret.eq[i][j] <=>
                   /\ entries[i].kind = entries[j].kind
                   /\ FileNameComponent(entries[i]) =
                          FileNameComponent(entries[j])
        /\ \A i, j, k \in 1..3 :
            /\ (ret.cmp[i][j] = "Less" /\ ret.cmp[j][k] = "Less")
                   => ret.cmp[i][k] = "Less"
            /\ (ret.cmp[i][j] = "Equal" /\ ret.cmp[j][k] = "Equal")
                   => ret.cmp[i][k] = "Equal"
            /\ (ret.cmp[i][j] # "Greater" /\ ret.cmp[j][k] # "Greater")
                   => ret.cmp[i][k] # "Greater"

\* a directory, then two files of the same name whose titles differ: the
\* files are equal and the directory is less than both
C4_Witness ==
    /\ op.name = "cmp"
    /\ IsDirectory(entries[1]) /\ IsPlayable(entries[2]) /\ IsPlayable(entries[3])
    /\ entries[2].title # entries[3].title
    /\ entries[2].full_path # entries[3].full_path
    /\ ret.cmp[1][2] = "Less"
    /\ ret.cmp[2][3] = "Equal"
    /\ ret.eq[2][3]

\* e with its selected flag set to v (a Directory has none)
WithSelected(e, v) == IF IsPlayable(e) THEN [e EXCEPT !.selected = v] ELSE e

\* e with its duration set to d (a Directory has none)
WithDuration(e, d) == IF IsPlayable(e) THEN [e EXCEPT !.duration = d] ELSE e

\* one step of select, unselect_all or set_selected changes selected flags
\* of Playable entries only; one step of set_duration changes the duration
\* of the Playable it is called on only
FrameStep ==
    /\ op'.name \in {"select", "unselect_all", "set_selected"} =>
        /\ Len(entries') = Len(entries)
        /\ \A i \in 1..Len(entries) :
            /\ IsDirectory(entries[i]) =>
                   (entries'[i] = entries[i] /\ ~selected(entries'[i]))
            /\ IsPlayable(entries[i]) =>
                   /\ IsPlayable(entries'[i])
                   /\ WithSelected(entries'[i], entries[i].selected) = entries[i]
    /\ op'.name = "set_duration" =>
        /\ Len(entries') = Len(entries)
        /\ \A i \in 1..Len(entries) :
            IF i = op'.index + 1 /\ IsPlayable(entries[i])
            THEN /\ IsPlayable(entries'[i])
                 /\ entries'[i].duration = op'.arg
                 /\ WithDuration(entries'[i], entries[i].duration) = entries[i]
            ELSE entries'[i] = entries[i]

\* C6: select, unselect_all and set_selected change nothing but the selected
\* flag of Playable entries (length, order, variants and every other field
\* stay, a Directory stays identical and unselected); set_duration changes
\* nothing but the duration of the Playable it is called on.
C6_Frame == [][FrameStep]_vars

\* set_selected(true) was called on a second Playable that has a duration,
\* next to a Directory
C6_Witness ==
    /\ op.name = "set_selected"
    /\ op.arg = TRUE
    /\ Cardinality(SelectedSet) = 2
    /\ IsSome(entries[op.index + 1].duration)
    /\ IsDirectory(entries[1])

\* the children of the scanned directory that read_dir yields readable
Children == {fs.listing[i] : i \in {j \in 1..Len(fs.listing) : fs.listing[j].ok}}

\* the names of the model's files whose extension is mp3 or flac in any case
AudioNames ==
    { <<"a", ".", "f", "l", "a", "c">>, <<"b", ".", "m", "p", "3">>,
      <<"c", ".", "M", "P", "3">> }

ChildDirPaths ==
    { PathJoin(ScanPath, c.name) : c \in {d \in Children : d.kind = "dir"} }

ChildAudioPaths ==
    { PathJoin(ScanPath, c.name) :
      c \in {d \in Children : d.kind = "file" /\ d.name \in AudioNames} }

\* the entries are in the order of C7: directories first, each group
\* ascending by file-name component
SortedEntries ==
    \A i, j \in 1..Len(entries) :
        i < j =>
            /\ IsDirectory(entries[j]) => IsDirectory(entries[i])
            /\ entries[i].kind = entries[j].kind =>
                   LexLess(FileNameComponent(entries[i]),
                           FileNameComponent(entries[j]))

\* the children are b.mp3, a.flac and the directory z, in this order
ScenarioListing ==
    /\ fs.is_dir /\ fs.read_dir_ok
    /\ Len(fs.listing) = 3
    /\ \A i \in 1..3 : fs.listing[i].ok
    /\ fs.listing[1].name = <<"b", ".", "m", "p", "3">>
    /\ fs.listing[1].kind = "file"
    /\ fs.listing[2].name = <<"a", ".", "f", "l", "a", "c">>
    /\ fs.listing[2].kind = "file"
    /\ fs.listing[3].name = <<"z">>
    /\ fs.listing[3].kind = "dir"

ScenarioResult ==
    [i \in 1..Len(entries) |-> FileNameComponent(entries[i])] =
        << <<".", ".">>, <<"z">>, <<"a", ".", "f", "l", "a", "c">>,
           <<"b", ".", "m", "p", "3">> >>

\* C7: for a directory, get_local_entries returns a sequence sorted by the
\* entry ordering that holds exactly "..", one Directory per child
\* directory and one unselected Playable per child regular file whose
\* extension is mp3 or flac in any case; b.mp3, a.flac and z/ give
\* "..", "z", "a.flac", "b.mp3".
C7_ScanResult ==
    (op.name = "get_local_entries" /\ status = "running" /\ fs.is_dir) =>
        /\ SortedEntries
        /\ {entries[i].full_path :
                i \in {j \in 1..Len(entries) : IsDirectory(entries[j])}}
               = {<<".", ".">>} \cup ChildDirPaths
        /\ {entries[i].full_path :
                i \in {j \in 1..Len(entries) : IsPlayable(entries[j])}}
               = ChildAudioPaths
        /\ Len(entries) =
               1 + Cardinality(ChildDirPaths) + Cardinality(ChildAudioPaths)
        /\ \A i \in 1..Len(entries) : ~selected(entries[i])
        /\ ScenarioListing => ScenarioResult

\* the scenario of C7 has been scanned
C7_Witness ==
    /\ op.name = "get_local_entries"
    /\ status = "running"
    /\ ScenarioListing
    /\ ScenarioResult

\* the listing with every tag read failing
WithoutTags(path) ==
    [path EXCEPT !.listing =
        [i \in 1..Len(path.listing) |-> [path.listing[i] EXCEPT !.tag = TagErr]]]

\* the results C8 gives the failures of a scan that returns
ScanDegrades ==
    /\ ~fs.is_dir => entries = << >>
    /\ (fs.is_dir /\ ~fs.read_dir_ok) => entries = <<Directory(<<".", ".">>)>>
    /\ fs.is_dir =>
        /\ Len(entries) =
               1 + Cardinality(ChildDirPaths) + Cardinality(ChildAudioPaths)
        /\ \A i \in 1..Len(entries) :
            /\ entries[i].full_path =
                   get_local_entries(WithoutTags(fs)).entries[i].full_path
            /\ (IsPlayable(entries[i])
                /\ \E c \in Children :
                       /\ PathJoin(ScanPath, c.name) = entries[i].full_path
                       /\ ~c.tag.ok)
                   => entries[i] = Playable(entries[i].full_path, FALSE,
                                            None, None, None, None, None)

\* C8: get_local_entries never fails: a path that is no directory gives no
\* entries, an unreadable directory gives "..", an unreadable child is left
\* out, and a file whose tags cannot be read is a Playable with every tag
\* field empty, so the Playable entries do not depend on tag reading.
C8_NeverFails ==
    op.name = "get_local_entries" => (status = "running" /\ ScanDegrades)

\* the same for the scans that return
ScanDegradesWhenReturning ==
    (op.name = "get_local_entries" /\ status = "running") => ScanDegrades

\* C9 as stated: a stored duration is overwritten by a different duration
\* the decoder reports
LastWriteWinsStep ==
    (/\ op'.name = "add_entry_to_sink"
     /\ IsPlayable(entries[op'.index + 1])
     /\ IsSome(entries[op'.index + 1].duration)
     /\ op'.arg.outcome.open_ok /\ op'.arg.outcome.decode_ok
     /\ IsSome(op'.arg.outcome.total_duration)
     /\ op'.arg.outcome.total_duration[1] # duration(entries[op'.index + 1]))
        => duration(entries'[op'.index + 1]) = op'.arg.outcome.total_duration[1]

\* C9: when the tag reader stored a duration and the decoder, at play time,
\* reports a different total duration, duration() is afterwards the
\* decoder's.
C9_LastWriteWins == [][LastWriteWinsStep]_vars

\* one step of add_entry_to_sink on a Playable changes its duration alone,
\* and only as a backfill
BackfillStep ==
    (op'.name = "add_entry_to_sink" /\ IsPlayable(entries[op'.index + 1])) =>
        LET e == entries[op'.index + 1]
            o == op'.arg.outcome
        IN  /\ \A i \in 1..Len(entries) :
                   i # op'.index + 1 => entries'[i] = entries[i]
            /\ IF o.open_ok /\ o.decode_ok /\ UnwrapOr(e.duration, 0) = 0
               THEN entries'[op'.index + 1] = [e EXCEPT !.duration = o.total_duration]
               ELSE entries'[op'.index + 1] = e

\* C9 amended: add_entry_to_sink takes the decoder's total duration only
\* when the file opens and decodes and the stored duration is absent or
\* zero; a stored non-zero duration stays, whatever the decoder reports.
C9_BackfillOnlyWhenZero == [][BackfillStep]_vars

\* a file the tag reader gave a zero duration has the decoder's duration
\* after it was added to the sink
C9_Witness ==
    /\ op.name = "add_entry_to_sink"
    /\ op.arg.appended
    /\ op.arg.outcome.total_duration = Some(5)
    /\ IsSome(entries[op.index + 1].title)
    /\ IsSome(entries[op.index + 1].album) = FALSE
    /\ entries[op.index + 1].duration = Some(5)

====
